---- MODULE Spec2Model ----
(***************************************************************************)
(* Model of markitdown's DOCX converter (converters/_docx_converter.py)    *)
(* and of its Markdown serializer rules (converters/_markdownify.py).      *)
(*                                                                         *)
(* Text is modelled as a sequence of one-character strings; a character    *)
(* outside ASCII is written by its code point ("U+6587").  A data URI is   *)
(* a sequence of lexical tokens ("data:", a media type, ";", ",", base64   *)
(* quads), which is the granularity at which the code splits it.           *)
(***************************************************************************)
EXTENDS Integers, Sequences, FiniteSets, TLC

VARIABLES
    filename_arg,   \* _sanitize_filename: the argument
    sanitized,      \* _sanitize_filename: the value returned (None before the call)
    stream_info,    \* _get_document_name: the StreamInfo argument
    doc_name,       \* _get_document_name: the value returned (None before the call)
    mammoth_ok,     \* _dependency_exc_info is None: the import of mammoth succeeded
    dirs,           \* filesystem: the directories that exist (paths)
    files,          \* filesystem: path -> bytes of every regular file
    blocked,        \* filesystem: paths at which creating or opening fails (OSError)
    calls,          \* number of convert calls made
    last,           \* what the latest convert call was given, did and returned
    extracted,      \* every image the extractor saved so far, with the document it was in
    anchor,         \* convert_a: the a element, its rendered text and the options
    rendered,       \* convert_a: the Markdown returned (NotRendered before the call)
    procs           \* concurrent conversions: each one's image and place in the extractor

vars == <<filename_arg, sanitized, stream_info, doc_name,
          mammoth_ok, dirs, files, blocked, calls, last, extracted, anchor, rendered,
          procs>>

\* an absent value; of sequence type so that it compares with text
None == <<"None">>
\* convert_a not yet called
NotRendered == [form |-> "none", str |-> <<>>]

(***************************************************************************)
(* Bounds                                                                  *)
(***************************************************************************)
MaxNameLen == 3     \* longest raw name handed to the sanitizer
MaxHintLen == 3     \* longest filename / local_path hint of a StreamInfo
MaxImgs == 2        \* most img elements in one rendered document
MaxCalls == 1       \* convert calls in one behaviour of Spec and of SpecEmbedded
MaxDocs == 3        \* documents converted in one behaviour of SpecDocs

(***************************************************************************)
(* Generic sequence helpers                                                *)
(***************************************************************************)
SeqsUpTo(S, n) == UNION {[1..k -> S] : k \in 0..n}

RECURSIVE Flatten(_)
Flatten(ss) == IF ss = <<>> THEN <<>> ELSE Head(ss) \o Flatten(Tail(ss))

Last(s) == s[Len(s)]

\* positions of s holding c
Positions(s, c) == {i \in 1..Len(s) : s[i] = c}

Max(S) == CHOOSE x \in S : \A y \in S : y <= x
Min(S) == CHOOSE x \in S : \A y \in S : x <= y

(***************************************************************************)
(* Characters                                                              *)
(***************************************************************************)
\* ASCII letters and digits that occur in the modelled names
AsciiAlnum == {"a", "e", "7", "u", "n", "m", "d", "o", "c", "x", "r", "y", "h", "t", "p"}
\* alphanumeric characters outside ASCII (str.isalnum() is true of them):
\* U+6587 is a CJK ideograph
UnicodeAlnum == {"U+6587"}
\* U+00E9 is e-acute, U+0301 the combining acute accent (no alphanumeric),
\* U+FF3F the fullwidth low line
NameAlphabet == {"a", "7", "_", "-", ".", " ", "U+6587", "U+00E9", "U+FF3F"}

\* unicodedata.normalize("NFKD", c) of one character
NFKDChar(c) ==
    CASE c = "U+00E9" -> <<"e", "U+0301">>
      [] c = "U+FF3F" -> <<"_">>
      [] OTHER -> <<c>>

NFKD(s) == Flatten([i \in 1..Len(s) |-> NFKDChar(s[i])])

\* the regular expression class [\w\-\.] of a str pattern: \w is Unicode-aware
IsWordChar(c) == c \in AsciiAlnum \cup UnicodeAlnum \cup {"_"}
IsKeptChar(c) == IsWordChar(c) \/ c = "-" \/ c = "."

\* re.sub(r"[^\w\-\.]", "_", s)
ReplaceInvalid(s) == [i \in 1..Len(s) |-> IF IsKeptChar(s[i]) THEN s[i] ELSE "_"]

\* re.sub(r"_+", "_", s)
RECURSIVE CollapseUnderscores(_)
CollapseUnderscores(s) ==
    IF Len(s) <= 1 THEN s
    ELSE IF s[1] = "_" /\ s[2] = "_" THEN CollapseUnderscores(Tail(s))
    ELSE <<s[1]>> \o CollapseUnderscores(Tail(s))

RECURSIVE LStrip(_)
LStrip(s) == IF s # <<>> /\ Head(s) = "_" THEN LStrip(Tail(s)) ELSE s
RECURSIVE RStrip(_)
RStrip(s) == IF s # <<>> /\ Last(s) = "_" THEN RStrip(SubSeq(s, 1, Len(s) - 1)) ELSE s
\* s.lstrip("_") in place of s.strip("_")
StripLeadingOnly(s) == LStrip(s)

\* s.strip("_")
StripUnderscores(s) == RStrip(LStrip(s))

Unnamed == <<"u", "n", "n", "a", "m", "e", "d">>

\* DocxConverter._sanitize_filename
_sanitize_filename(filename) ==
    LET normalized == NFKD(filename)
        replaced == ReplaceInvalid(normalized)
        collapsed == CollapseUnderscores(replaced)
        stripped == StripUnderscores(collapsed)
    IN IF stripped = <<>> THEN Unnamed ELSE stripped

(***************************************************************************)
(* Document name resolver                                                  *)
(***************************************************************************)
\* os.path.basename (posix): what follows the last "/"
Basename(p) ==
    LET slashes == Positions(p, "/")
    IN IF slashes = {} THEN p ELSE SubSeq(p, Max(slashes) + 1, Len(p))

\* os.path.splitext(b)[0] of a basename: cut at the last period, unless only
\* periods precede it
SplitextRoot(b) ==
    LET dots == Positions(b, ".")
    IN IF dots = {} THEN b
       ELSE LET d == Max(dots)
            IN IF \E i \in 1..(d - 1) : b[i] # "." THEN SubSeq(b, 1, d - 1) ELSE b

DefaultDocName == <<"d", "o", "c", "x", "_", "d", "o", "c", "u", "m", "e", "n", "t">>

\* an absent attribute (None) and the empty string are both falsy
Truthy(s) == s # None /\ s # <<>>

\* DocxConverter._get_document_name
_get_document_name(si) ==
    LET fname == IF Truthy(si.filename) THEN SplitextRoot(Basename(si.filename)) ELSE <<>>
        lname == IF Truthy(si.local_path) THEN SplitextRoot(Basename(si.local_path)) ELSE <<>>
    IN IF fname # <<>> THEN _sanitize_filename(fname)
       ELSE IF lname # <<>> THEN lname
       ELSE DefaultDocName

(***************************************************************************)
(* Filesystem                                                              *)
(***************************************************************************)
\* os.path.join(a, b)
PathJoin(a, b) == a \o <<"/">> \o b

\* the path itself and every ancestor of it, as os.makedirs walks them
DirPrefixes(p) == {SubSeq(p, 1, i - 1) : i \in Positions(p, "/")} \cup {p}

ParentDir(p) == SubSeq(p, 1, Max(Positions(p, "/")) - 1)

\* os.makedirs(p, exist_ok=True) on the filesystem fs = [dirs, files]: the
\* ancestors are made first, outermost first; the first one that cannot be made
\* (a blocked location, or a regular file in the way) raises OSError and leaves
\* those already made
MakeDirs(fs, p) ==
    LET need == DirPrefixes(p) \ fs.dirs
        bad == {d \in need : d \in blocked \/ d \in DOMAIN fs.files}
    IN IF bad = {}
       THEN [ok |-> TRUE, fs |-> [fs EXCEPT !.dirs = @ \cup need]]
       ELSE LET stop == Min({Len(d) : d \in bad})
            IN [ok |-> FALSE,
                fs |-> [fs EXCEPT !.dirs = @ \cup {d \in need : Len(d) < stop}]]

\* open(path, "wb"): the content left by the truncation
OpenTruncate(content) == <<>>

\* a write of byte b by a descriptor opened for appending: it lands at the end
WriteAppending(content, off, b) == Append(content, b)

\* a write of byte b at the descriptor's offset off (0-based): it replaces the
\* byte there, or extends the file, a gap reading as zeros
WriteAt(content, off, b) ==
    IF off < Len(content) THEN [content EXCEPT ![off + 1] = b]
    ELSE content \o [k \in 1..(off - Len(content)) |-> 0] \o <<b>>

\* f.write(data) from offset off on
RECURSIVE WriteFrom(_, _, _)
WriteFrom(content, off, data) ==
    IF off >= Len(data) THEN content
    ELSE WriteFrom(WriteAt(content, off, data[off + 1]), off + 1, data)

\* the file's content after open(path, "wb") and f.write(data)
WriteTruncating(old, data) == WriteFrom(OpenTruncate(old), 0, data)

\* with open(path, "wb") as f: f.write(data); OSError when the path cannot be
\* opened for writing
WriteFile(fs, path, data) ==
    IF path \in blocked \/ path \in fs.dirs \/ ParentDir(path) \notin fs.dirs
    THEN [ok |-> FALSE, fs |-> fs]
    ELSE [ok |-> TRUE,
          fs |-> [fs EXCEPT !.files =
                     [q \in DOMAIN fs.files \cup {path} |->
                        IF q = path
                        THEN WriteTruncating(IF path \in DOMAIN fs.files
                                             THEN fs.files[path] ELSE <<>>, data)
                        ELSE fs.files[q]]]]

(***************************************************************************)
(* Data URIs                                                               *)
(***************************************************************************)
\* base64 quads and the three bytes each decodes to
B64Quads == {"AAAA", "AAAB", "AAAC"}
QuadBytes(q) ==
    CASE q = "AAAA" -> <<0, 0, 0>>
      [] q = "AAAB" -> <<0, 0, 1>>
      [] q = "AAAC" -> <<0, 0, 2>>

\* base64.b64decode(encoded): characters outside the alphabet (the comma) are
\* discarded; a lone trailing character ("B") leaves a length that is 1 more
\* than a multiple of 4, which raises binascii.Error
B64Decode(encoded) ==
    LET data == SelectSeq(encoded, LAMBDA t : t # ",")
    IN IF \E i \in 1..Len(data) : data[i] \notin B64Quads
       THEN [ok |-> FALSE, bytes |-> <<>>]
       ELSE [ok |-> TRUE,
             bytes |-> Flatten([i \in 1..Len(data) |-> QuadBytes(data[i])])]

RECURSIVE SumSeq(_)
SumSeq(s) == IF s = <<>> THEN 0 ELSE Head(s) + SumSeq(Tail(s))

\* number of values the truncated digest takes in the model (16^8 in the code)
HashSpace == 2

\* hashlib.sha256(image_data).hexdigest()[:8]: a fixed function of the bytes
\* with a range smaller than its domain
HashName(image_data) == ToString(SumSeq(image_data) % HashSpace)

\* src.startswith("data:image")
StartsWithDataImage(src) ==
    /\ Len(src) >= 2
    /\ src[1] = "data:"
    /\ src[2] \in {"image/png", "image/jpeg", "image/jpg", "image/gif", "image/webp"}

\* src.startswith("data:")
StartsWithData(src) == Len(src) >= 1 /\ src[1] = "data:"

\* src.split(";")[0].replace("data:", "")
MimeType(src) ==
    LET semis == Positions(src, ";")
        head == IF semis = {} THEN src ELSE SubSeq(src, 1, Min(semis) - 1)
    IN SelectSeq(head, LAMBDA t : t # "data:")

\* the extension table and its default
ExtensionOf(mime_type) ==
    CASE mime_type = <<"image/png">> -> ".png"
      [] mime_type = <<"image/jpeg">> -> ".jpg"
      [] mime_type = <<"image/jpg">> -> ".jpg"
      [] mime_type = <<"image/gif">> -> ".gif"
      [] OTHER -> ".png"

\* src.split(",", 1)[1]: everything after the first comma; IndexError without one
SplitOnceAfterComma(src) ==
    LET commas == Positions(src, ",")
    IN IF commas = {} THEN [ok |-> FALSE, part |-> <<>>]
       ELSE [ok |-> TRUE, part |-> SubSeq(src, Min(commas) + 1, Len(src))]

\* src.split(",")[1]: what lies between the first comma and the second
SplitSecondField(src) ==
    LET commas == Positions(src, ",")
    IN IF commas = {} THEN [ok |-> FALSE, part |-> <<>>]
       ELSE LET c1 == Min(commas)
                rest == commas \ {c1}
                c2 == IF rest = {} THEN Len(src) + 1 ELSE Min(rest)
            IN [ok |-> TRUE, part |-> SubSeq(src, c1 + 1, c2 - 1)]

\* src.split(",")[0] + "..."
TruncatedDataUri(src) ==
    LET commas == Positions(src, ",")
    IN (IF commas = {} THEN src ELSE SubSeq(src, 1, Min(commas) - 1)) \o <<"...">>

\* f"image_{hashname}"
ImageStem(hashname) == <<"image_", hashname>>

\* a file name that leaves the digest out
ImageFileNameWithoutHash(hashname, ext) == <<"image_", "0", ext>>

\* f"image_{hashname}{ext}"
ImageFileName(hashname, ext) == ImageStem(hashname) \o <<ext>>

\* img.get("src", "") or img.get("data-src", "")
ImgSource(img) == IF img.src # <<>> THEN img.src ELSE img.data_src

(***************************************************************************)
(* Data-URI image extractor (DocxConverter._extract_and_save_images)       *)
(***************************************************************************)
\* One pass of the loop body over img, writing below output_dir.  status names
\* the way the body ended: "skipped" (the continue of a source that is no
\* data:image URI), "saved", or the exception the except clause swallowed.
ExtractOne(fs, img, output_dir) ==
    LET src == ImgSource(img)
        unchanged(st) == [fs |-> fs, img |-> img, status |-> st, written |-> {}, saved |-> {}]
    IN IF src = <<>> \/ ~StartsWithDataImage(src) THEN unchanged("skipped")
       ELSE LET ext == ExtensionOf(MimeType(src))
                encoded == SplitOnceAfterComma(src)
            IN IF ~encoded.ok THEN unchanged("IndexError")
               ELSE LET decoded == B64Decode(encoded.part)
                    IN IF ~decoded.ok THEN unchanged("binascii.Error")
                       ELSE LET hashname == HashName(decoded.bytes)
                                filepath == PathJoin(output_dir, ImageFileName(hashname, ext))
                                w == WriteFile(fs, filepath, decoded.bytes)
                            IN IF ~w.ok THEN unchanged("OSError")
                               ELSE [fs |-> w.fs,
                                     img |-> [img EXCEPT
                                                !.src = filepath,
                                                !.alt = IF @ = <<>> THEN ImageStem(hashname) ELSE @],
                                     status |-> "saved",
                                     written |-> {filepath},
                                     saved |-> {[bytes |-> decoded.bytes,
                                                 mime_type |-> MimeType(src),
                                                 hashname |-> hashname,
                                                 filename |-> ImageFileName(hashname, ext),
                                                 filepath |-> filepath]}]

\* the loop as it would run with break in place of continue in the except
\* clause: the first failure leaves every later element unprocessed
RECURSIVE ExtractLoopBreaking(_, _, _, _)
ExtractLoopBreaking(acc, images, i, output_dir) ==
    IF i > Len(images) THEN acc
    ELSE LET r == ExtractOne(acc.fs, images[i], output_dir)
             failed == r.status \notin {"skipped", "saved"}
             rest == SubSeq(images, i + 1, Len(images))
         IN IF failed
            THEN [acc EXCEPT !.imgs = @ \o <<r.img>> \o rest,
                             !.status = @ \o <<r.status>> \o [k \in 1..Len(rest) |-> "unprocessed"]]
            ELSE ExtractLoopBreaking([fs |-> r.fs,
                                      imgs |-> Append(acc.imgs, r.img),
                                      status |-> Append(acc.status, r.status),
                                      written |-> acc.written \cup r.written,
                                      saved |-> acc.saved \cup r.saved],
                                     images, i + 1, output_dir)

\* the for loop over the images, from the i-th on
RECURSIVE ExtractLoop(_, _, _, _)
ExtractLoop(acc, images, i, output_dir) ==
    IF i > Len(images) THEN acc
    ELSE LET r == ExtractOne(acc.fs, images[i], output_dir)
         IN ExtractLoop([fs |-> r.fs,
                         imgs |-> Append(acc.imgs, r.img),
                         status |-> Append(acc.status, r.status),
                         written |-> acc.written \cup r.written,
                         saved |-> acc.saved \cup r.saved],
                        images, i + 1, output_dir)

\* DocxConverter._extract_and_save_images: html_content is the sequence of img
\* elements of the rendered HTML.  raised: os.makedirs raised OSError, which no
\* handler of the method catches.
_extract_and_save_images(fs, html_content, doc_folder, assets_folder) ==
    IF html_content = <<>>
    THEN [raised |-> FALSE, fs |-> fs, imgs |-> html_content, status |-> <<>>,
          written |-> {}, saved |-> {}]
    ELSE LET output_dir == PathJoin(assets_folder, doc_folder)
             mk == MakeDirs(fs, output_dir)
         IN IF ~mk.ok
            THEN [raised |-> TRUE, fs |-> mk.fs, imgs |-> html_content,
                  status |-> <<>>, written |-> {}, saved |-> {}]
            ELSE LET done == ExtractLoop([fs |-> mk.fs, imgs |-> <<>>, status |-> <<>>,
                                          written |-> {}, saved |-> {}],
                                         html_content, 1, output_dir)
                 IN [raised |-> FALSE, fs |-> done.fs, imgs |-> done.imgs,
                     status |-> done.status, written |-> done.written,
                     saved |-> done.saved]

(***************************************************************************)
(* Markdown serializer, image rule (_CustomMarkdownify.convert_img)        *)
(***************************************************************************)
\* _CustomMarkdownify.__init__: the options the image rule reads
_CustomMarkdownify(options) ==
    [image_output_dir |-> options.image_output_dir,
     conversion_name |-> options.conversion_name,
     keep_data_uris |-> options.keep_data_uris]

\* the directory the image rule writes to
MdOutputDir(self) ==
    IF Truthy(self.conversion_name)
    THEN PathJoin(self.image_output_dir, self.conversion_name)
    ELSE self.image_output_dir

ImageErrorSrc == <<"image_error.png">>

\* _CustomMarkdownify.convert_img on img.  out is the Markdown emitted:
\* "alt" (the alt text alone), "image" (![alt](src)) or "image_error"
\* (![alt](image_error.png) followed by the diagnostic comment).
convert_img(self, fs, img) ==
    LET src == ImgSource(img)
        emit(kind, s, f, wr) ==
            [fs |-> f, out |-> [kind |-> kind, alt |-> img.alt, src |-> s], written |-> wr]
    IN IF img.inline THEN emit("alt", <<>>, fs, {})
       ELSE IF StartsWithDataImage(src) /\ ~self.keep_data_uris
       THEN LET ext == ExtensionOf(MimeType(src))
                encoded == SplitSecondField(src)
            IN IF ~encoded.ok THEN emit("image_error", ImageErrorSrc, fs, {})
               ELSE LET decoded == B64Decode(encoded.part)
                    IN IF ~decoded.ok THEN emit("image_error", ImageErrorSrc, fs, {})
                       ELSE LET hashname == HashName(decoded.bytes)
                                output_dir == MdOutputDir(self)
                                mk == MakeDirs(fs, output_dir)
                                filepath == PathJoin(output_dir, ImageFileName(hashname, ext))
                                w == WriteFile(mk.fs, filepath, decoded.bytes)
                            IN IF ~mk.ok THEN emit("image_error", ImageErrorSrc, mk.fs, {})
                               ELSE IF ~w.ok THEN emit("image_error", ImageErrorSrc, mk.fs, {})
                               ELSE emit("image", filepath, w.fs, {filepath})
       ELSE IF StartsWithData(src) /\ ~self.keep_data_uris
       THEN emit("image", TruncatedDataUri(src), fs, {})
       ELSE emit("image", src, fs, {})

\* the serializer's walk over the img elements of the document, from the i-th on
RECURSIVE MarkdownLoop(_, _, _, _)
MarkdownLoop(acc, self, images, i) ==
    IF i > Len(images) THEN acc
    ELSE LET r == convert_img(self, acc.fs, images[i])
         IN MarkdownLoop([fs |-> r.fs, out |-> Append(acc.out, r.out),
                          written |-> acc.written \cup r.written],
                         self, images, i + 1)

\* HtmlConverter.convert(processed_html, **html_kwargs): builds the serializer
\* from the options it is given and serializes the document, the image rule
\* being applied to each img element in document order
HtmlConverter_convert(fs, html_kwargs, images) ==
    MarkdownLoop([fs |-> fs, out |-> <<>>, written |-> {}],
                 _CustomMarkdownify(html_kwargs), images, 1)

(***************************************************************************)
(* Conversion orchestrator (DocxConverter.convert)                         *)
(***************************************************************************)
AssetsDefault == <<"assets">>

\* kwargs.get("image_output_dir", "assets")
AssetsFolder(kwargs) ==
    IF kwargs.image_output_dir = None THEN AssetsDefault ELSE kwargs.image_output_dir

\* kwargs.get("conversion_name") or self._get_document_name(stream_info).
\* hasattr(self, "sanitize_filename") is false: the class defines
\* _sanitize_filename only, so the name is used as it is.
DocName(kwargs, si) ==
    IF Truthy(kwargs.conversion_name) THEN kwargs.conversion_name
    ELSE _get_document_name(si)

\* html_kwargs: kwargs without conversion_name, as the HTML converter hands
\* them to _CustomMarkdownify (whose defaults fill what is absent)
HtmlKwargs(kwargs) ==
    [image_output_dir |-> AssetsFolder(kwargs),
     conversion_name |-> None,
     keep_data_uris |-> kwargs.keep_data_uris]

NoCall ==
    [outcome |-> "none", kwargs |-> <<>>, doc |-> <<>>, html |-> <<>>, processed |-> <<>>,
     status |-> <<>>, x_created |-> {}, x_written |-> {}, markdown |-> <<>>,
     m_created |-> {}, m_written |-> {}]

\* DocxConverter.convert(file_stream, stream_info, **kwargs), html being what
\* mammoth.convert_to_html renders of file_stream
convert(kwargs, si, html) ==
    IF ~mammoth_ok
    THEN /\ last' = [NoCall EXCEPT !.outcome = "MissingDependencyException",
                                   !.kwargs = kwargs, !.html = html]
         /\ UNCHANGED <<dirs, files, extracted>>
    ELSE LET fs0 == [dirs |-> dirs, files |-> files]
             doc == DocName(kwargs, si)
             assets_folder == AssetsFolder(kwargs)
             x == _extract_and_save_images(fs0, html, doc, assets_folder)
             md == HtmlConverter_convert(x.fs, HtmlKwargs(kwargs), x.imgs)
         IN IF x.raised
            THEN /\ last' = [NoCall EXCEPT !.outcome = "OSError", !.kwargs = kwargs,
                                           !.doc = doc, !.html = html,
                                           !.x_created = x.fs.dirs \ dirs]
                 /\ dirs' = x.fs.dirs
                 /\ files' = x.fs.files
                 /\ UNCHANGED extracted
            ELSE /\ last' = [outcome |-> "returned", kwargs |-> kwargs, doc |-> doc,
                             html |-> html, processed |-> x.imgs, status |-> x.status,
                             x_created |-> x.fs.dirs \ dirs, x_written |-> x.written,
                             markdown |-> md.out,
                             m_created |-> md.fs.dirs \ x.fs.dirs, m_written |-> md.written]
                 /\ dirs' = md.fs.dirs
                 /\ files' = md.fs.files
                 /\ extracted' = extracted \cup
                                   {[doc |-> doc, image |-> e] : e \in x.saved}

(***************************************************************************)
(* Inputs of the conversion                                                *)
(***************************************************************************)
DataPng(payload) == <<"data:", "image/png", ";", "base64", ",">> \o payload

\* an ordinary (non-data) source
ImgOrdinary == [src |-> <<"http://x/a.png">>, data_src |-> <<>>, alt |-> <<"pic">>, inline |-> FALSE]
\* a well-formed PNG data URI without alt text
ImgPng == [src |-> DataPng(<<"AAAA">>), data_src |-> <<>>, alt |-> <<>>, inline |-> FALSE]
\* a second payload, with alt text, held in data-src (src empty)
ImgLazy == [src |-> <<>>, data_src |-> DataPng(<<"AAAB">>), alt |-> <<"pic">>, inline |-> FALSE]
\* a payload holding a second comma, followed by a stray character
ImgTwoCommas == [src |-> DataPng(<<"AAAB", ",", "B">>), data_src |-> <<>>, alt |-> <<>>, inline |-> FALSE]
\* a data:image source without any comma
ImgNoComma == [src |-> <<"data:", "image/png">>, data_src |-> <<>>, alt |-> <<"pic">>, inline |-> FALSE]

ImgKinds == {ImgOrdinary, ImgPng, ImgLazy, ImgTwoCommas, ImgNoComma}

Htmls == SeqsUpTo(ImgKinds, MaxImgs)

ConversionNames == {None, <<"c">>}

KwargsSet ==
    [conversion_name : ConversionNames, keep_data_uris : BOOLEAN, image_output_dir : {None}]

ReportStreamInfo == [filename |-> <<"r", ".", "d">>, local_path |-> None, url |-> None]

\* locations that cannot be created or opened: the document's asset directory,
\* or the file the PNG payload is saved to
ReportDir == PathJoin(AssetsDefault, <<"r">>)
BlockedChoices ==
    {{}, {ReportDir}, {PathJoin(ReportDir, ImageFileName(HashName(<<0, 0, 0>>), ".png"))}}

(***************************************************************************)
(* Specification of convert                                                *)
(***************************************************************************)
Idle ==
    /\ filename_arg = None /\ sanitized = None
    /\ stream_info = None /\ doc_name = None
    /\ anchor = None /\ rendered = NotRendered /\ procs = <<>>

Init ==
    /\ Idle
    /\ mammoth_ok \in BOOLEAN
    /\ dirs = {}
    /\ files = <<>>
    /\ blocked \in BlockedChoices
    /\ calls = 0
    /\ last = NoCall
    /\ extracted = {}

Convert ==
    /\ calls < MaxCalls
    /\ \E kwargs \in KwargsSet, html \in Htmls :
          convert(kwargs, ReportStreamInfo, html)
    /\ calls' = calls + 1
    /\ UNCHANGED <<filename_arg, sanitized, stream_info, doc_name, mammoth_ok, blocked,
                   anchor, rendered, procs>>

Next == Convert

Spec == Init /\ [][Next]_vars

(***************************************************************************)
(* Specification of convert on documents whose images are all embedded,    *)
(* called without keyword arguments                                        *)
(***************************************************************************)
NoKwargs == [conversion_name |-> None, keep_data_uris |-> FALSE, image_output_dir |-> None]

\* the elements that carry a data:image source, in src or in data-src
EmbeddedKinds == {img \in ImgKinds : StartsWithDataImage(ImgSource(img))}

EmbeddedHtmls == SeqsUpTo(EmbeddedKinds, MaxImgs)

ConvertEmbedded ==
    /\ calls < MaxCalls
    /\ \E html \in EmbeddedHtmls : convert(NoKwargs, ReportStreamInfo, html)
    /\ calls' = calls + 1
    /\ UNCHANGED <<filename_arg, sanitized, stream_info, doc_name, mammoth_ok, blocked,
                   anchor, rendered, procs>>

NextEmbedded == ConvertEmbedded

SpecEmbedded == Init /\ [][NextEmbedded]_vars

(***************************************************************************)
(* Claims about convert, checked under Spec (C2 under SpecEmbedded)        *)
(***************************************************************************)
Called == last.outcome # "none"
Returned == last.outcome = "returned"
ExtractorFailures == {"IndexError", "binascii.Error", "OSError"}
HasDataImage(html) == \E i \in 1..Len(html) : StartsWithDataImage(ImgSource(html[i]))
\* the directory <image_output_dir>/<document_name> of the latest call
DocDirOfLast ==
    PathJoin(AssetsFolder(last.kwargs),
             IF Truthy(last.kwargs.conversion_name) THEN last.kwargs.conversion_name
             ELSE _get_document_name(ReportStreamInfo))
\* a well-formed data:image source: one comma, a payload of whole quads
WellFormed(img) == ImgSource(img) \in {DataPng(<<q>>) : q \in B64Quads}

\* C1: convert raises to its caller only when the structural-transform
\* dependency is missing; a filesystem failure during image extraction
\* (creating the directory or writing a file) is caught and convert returns.
C1_RaisesOnlyOnMissingDependency ==
    Called => \/ last.outcome = "returned"
              \/ last.outcome = "MissingDependencyException" /\ ~mammoth_ok

\* C2: in the extractor pass, an element whose processing fails (malformed
\* URI, base64 decode, file write) keeps its src and alt exactly, every later
\* element is still processed (a well-formed one whose file can be written is
\* saved), and each element that succeeds has its src rewritten to the path of
\* the file saved for it.
C2_FailureLeavesElementAndBatchContinues ==
    Returned =>
      /\ Len(last.processed) = Len(last.html)
      /\ Len(last.status) = Len(last.html)
      /\ \A i \in 1..Len(last.html) :
            /\ last.status[i] \in ExtractorFailures =>
                  /\ last.processed[i] = last.html[i]
                  /\ \A j \in (i + 1)..Len(last.html) :
                        /\ last.status[j] \in ExtractorFailures \cup {"skipped", "saved"}
                        /\ (WellFormed(last.html[j]) /\ blocked = {})
                              => last.status[j] = "saved"
            /\ last.status[i] = "saved" =>
                  /\ last.processed[i].src \in last.x_written
                  /\ last.processed[i].src \in DOMAIN files
                  /\ ParentDir(last.processed[i].src) = DocDirOfLast
                  /\ last.processed[i].src # ImgSource(last.html[i])

\* C2 witness: an element failed at the file write, and the element after it
\* was saved and rewritten.
C2_Witness ==
    /\ Returned
    /\ \E i \in 1..Len(last.html) : \E j \in (i + 1)..Len(last.html) :
          /\ last.status[i] = "OSError"
          /\ last.status[j] = "saved"
          /\ last.processed[i] = last.html[i]
          /\ last.processed[j].src \in DOMAIN files

\* C3: every image file written during one convert call, by the extractor or
\* by the serializer's image rule, lies in <image_output_dir>/<document_name>/,
\* document_name being conversion_name when given and the resolved name
\* otherwise; none is written directly in image_output_dir.
C3_AllImagesUnderDocumentDir ==
    Returned => \A p \in last.x_written \cup last.m_written : ParentDir(p) = DocDirOfLast

\* C4: with keep_data_uris enabled a convert call extracts nothing: it writes
\* no file, creates no directory, and every data:image source reaches the
\* Markdown output as the original data URI.
C4_KeepDataUrisExtractsNothing ==
    (Returned /\ last.kwargs.keep_data_uris) =>
      /\ last.x_written \cup last.m_written = {}
      /\ last.x_created \cup last.m_created = {}
      /\ \A i \in 1..Len(last.html) :
            StartsWithDataImage(ImgSource(last.html[i]))
               => /\ last.markdown[i].kind = "image"
                  /\ last.markdown[i].src = ImgSource(last.html[i])

\* C10: when the rendered HTML holds no img element with a data:image source
\* (ordinary sources included), the extractor pass leaves the filesystem
\* unchanged: no directory created, no file written.
C10_NoDataImageNoFilesystemChange ==
    (Returned /\ ~HasDataImage(last.html)) =>
      /\ last.x_created = {}
      /\ last.x_written = {}

(***************************************************************************)
(* Specification of several documents converted into one assets root       *)
(***************************************************************************)
DataImage(mime, payload) == <<"data:", mime, ";", "base64", ",">> \o payload
ImgOf(mime, payload) ==
    [src |-> DataImage(mime, payload), data_src |-> <<>>, alt |-> <<>>, inline |-> FALSE]

\* the same bytes declared as PNG, as JPEG and as an unlisted type; other bytes
\* with the same digest (AAAC) and with another digest (AAAB)
DocImgs ==
    {ImgOf("image/png", <<"AAAA">>), ImgOf("image/jpeg", <<"AAAA">>),
     ImgOf("image/webp", <<"AAAA">>), ImgOf("image/gif", <<"AAAC">>),
     ImgOf("image/png", <<"AAAB">>)}

\* documents of one image each: the images of several conversions meet in the
\* assets root
DocHtmls == {<<a>> : a \in DocImgs}

\* a document named by its filename, and one that carries no hint at all
DocStreamInfos ==
    {ReportStreamInfo, [filename |-> None, local_path |-> None, url |-> None]}

InitDocs ==
    /\ Idle
    /\ mammoth_ok = TRUE
    /\ dirs = {}
    /\ files = <<>>
    /\ blocked = {}
    /\ calls = 0
    /\ last = NoCall
    /\ extracted = {}

ConvertDoc ==
    /\ calls < MaxDocs
    /\ \E si \in DocStreamInfos, html \in DocHtmls : convert(NoKwargs, si, html)
    /\ calls' = calls + 1
    /\ UNCHANGED <<filename_arg, sanitized, stream_info, doc_name, mammoth_ok, blocked,
                   anchor, rendered, procs>>

NextDocs == ConvertDoc

SpecDocs == InitDocs /\ [][NextDocs]_vars

\* C7 as claimed: the filename of an extracted image is a function of its
\* decoded bytes alone (the same bytes give the same filename, in whatever
\* document and whatever media type the data URI declares), and two
\* extractions share a filename only when their bytes are identical or their
\* truncated hashes collide.
C7_FilenameFunctionOfBytesAlone ==
    \A a \in extracted, b \in extracted :
       /\ a.image.bytes = b.image.bytes => a.image.filename = b.image.filename
       /\ a.image.filename = b.image.filename
             => \/ a.image.bytes = b.image.bytes
                \/ HashName(a.image.bytes) = HashName(b.image.bytes)

\* C7 as amended: the hash segment image_<hash> is a function of the decoded
\* bytes alone, the filename a function of the bytes and the declared media
\* type (which picks the extension); two extractions share a filename only
\* when their bytes are identical or their truncated hashes collide.
C7_FilenameFunctionOfBytesAndType ==
    \A a \in extracted, b \in extracted :
       /\ a.image.bytes = b.image.bytes
             => SubSeq(a.image.filename, 1, 2) = SubSeq(b.image.filename, 1, 2)
       /\ (a.image.bytes = b.image.bytes /\ a.image.mime_type = b.image.mime_type)
             => a.image.filename = b.image.filename
       /\ a.image.filename = b.image.filename
             => \/ a.image.bytes = b.image.bytes
                \/ HashName(a.image.bytes) = HashName(b.image.bytes)

\* C7 witness: the same bytes extracted from two documents under two declared
\* media types got the same hash segment and different filenames, and the
\* same bytes under one media type got one filename in both documents.
C7_Witness ==
    /\ \E a \in extracted, b \in extracted :
          /\ a.doc # b.doc
          /\ a.image.bytes = b.image.bytes
          /\ a.image.mime_type # b.image.mime_type
          /\ a.image.filename # b.image.filename
          /\ SubSeq(a.image.filename, 1, 2) = SubSeq(b.image.filename, 1, 2)
    /\ \E a \in extracted, b \in extracted :
          /\ a.doc # b.doc
          /\ a.image.bytes = b.image.bytes
          /\ a.image.mime_type = b.image.mime_type
          /\ a.image.filename = b.image.filename
          /\ files[a.image.filepath] = a.image.bytes

(***************************************************************************)
(* Specification of the filename sanitizer                                 *)
(***************************************************************************)
ConvertIdle ==
    /\ mammoth_ok = TRUE /\ dirs = {} /\ files = <<>> /\ blocked = {}
    /\ calls = 0 /\ last = NoCall /\ extracted = {}

RawNames == SeqsUpTo(NameAlphabet, MaxNameLen)

InitSanitize ==
    /\ filename_arg \in RawNames
    /\ sanitized = None
    /\ stream_info = None /\ doc_name = None
    /\ anchor = None /\ rendered = NotRendered /\ procs = <<>>
    /\ ConvertIdle

Sanitize ==
    /\ sanitized = None
    /\ sanitized' = _sanitize_filename(filename_arg)
    /\ UNCHANGED <<filename_arg, stream_info, doc_name,
                   mammoth_ok, dirs, files, blocked, calls, last, extracted,
                   anchor, rendered, procs>>

NextSanitize == Sanitize

SpecSanitize == InitSanitize /\ [][NextSanitize]_vars

AsciiNameChars == AsciiAlnum \cup {"_", "-", "."}
\* characters the sanitizer removes: they become an underscore, or are one
VanishingChars == {"_", " ", "U+FF3F"}

WellShaped(name) ==
    /\ name # <<>>
    /\ \A i \in 1..(Len(name) - 1) : ~(name[i] = "_" /\ name[i + 1] = "_")
    /\ Head(name) # "_"
    /\ Last(name) # "_"

\* C6 as claimed: the sanitizer returns a non-empty string made only of A-Z,
\* a-z, 0-9, underscore, hyphen and period, without two consecutive
\* underscores and without a leading or trailing underscore; an input that
\* sanitizes to nothing returns "unnamed".
C6_SanitizedIsAsciiToken ==
    sanitized # None =>
      /\ WellShaped(sanitized)
      /\ \A i \in 1..Len(sanitized) : sanitized[i] \in AsciiNameChars
      /\ (\A i \in 1..Len(filename_arg) : filename_arg[i] \in VanishingChars)
            => sanitized = Unnamed

\* C6 as amended: the same, the characters being letters and digits of any
\* script (Unicode alphanumerics), underscore, hyphen and period.
C6_SanitizedIsWordToken ==
    sanitized # None =>
      /\ WellShaped(sanitized)
      /\ \A i \in 1..Len(sanitized) :
            sanitized[i] \in AsciiAlnum \cup UnicodeAlnum \cup {"_", "-", "."}
      /\ (\A i \in 1..Len(filename_arg) : filename_arg[i] \in VanishingChars)
            => sanitized = Unnamed

\* C6 witness: a name holding a letter outside ASCII, a space and a trailing
\* underscore was sanitized: the letter is kept, the space and the underscore
\* collapsed into one underscore, which was stripped.
C6_Witness ==
    /\ filename_arg = <<"U+6587", " ", "_">>
    /\ sanitized = <<"U+6587">>

(***************************************************************************)
(* Specification of the document name resolver                             *)
(***************************************************************************)
HintAlphabet == {"a", " ", ".", "/"}
Hints == {None} \cup SeqsUpTo(HintAlphabet, MaxHintLen)
\* http://h/y.d
UrlHints == {None, <<"h", "t", "t", "p", ":", "/", "/", "h", "/", "y", ".", "d">>}

StreamInfos == [filename : Hints, local_path : Hints, url : UrlHints]

InitDocName ==
    /\ stream_info \in StreamInfos
    /\ doc_name = None
    /\ filename_arg = None /\ sanitized = None
    /\ anchor = None /\ rendered = NotRendered /\ procs = <<>>
    /\ ConvertIdle

GetDocumentName ==
    /\ doc_name = None
    /\ doc_name' = _get_document_name(stream_info)
    /\ UNCHANGED <<filename_arg, sanitized, stream_info,
                   mammoth_ok, dirs, files, blocked, calls, last, extracted,
                   anchor, rendered, procs>>

NextDocName == GetDocumentName

SpecDocName == InitDocName /\ [][NextDocName]_vars

\* basename-without-extension of a hint; empty when the hint is absent
NameOfHint(h) == IF Truthy(h) THEN SplitextRoot(Basename(h)) ELSE <<>>

\* C5: the resolver returns the sanitized basename-without-extension of the
\* first hint, in the order filename, local_path, url, that yields a
\* non-empty name, and "docx_document" when none does; the name is sanitized
\* whichever hint it came from.
C5_FirstHintSanitized ==
    doc_name # None =>
      LET f == NameOfHint(stream_info.filename)
          l == NameOfHint(stream_info.local_path)
          u == NameOfHint(stream_info.url)
      IN doc_name = IF f # <<>> THEN _sanitize_filename(f)
                    ELSE IF l # <<>> THEN _sanitize_filename(l)
                    ELSE IF u # <<>> THEN _sanitize_filename(u)
                    ELSE DefaultDocName

(***************************************************************************)
(* Markdown serializer, anchor rule (_CustomMarkdownify.convert_a)         *)
(***************************************************************************)
UpperLetters == {"H", "T", "P", "S", "J", "A"}
LowerLetters == (AsciiAlnum \cup {"s", "j", "v", "i", "l", "f", "b", "k"}) \ {"7"}
Digits == {"1", "7"}

\* str.lower() of one character
LowerChar(c) ==
    CASE c = "H" -> "h" [] c = "T" -> "t" [] c = "P" -> "p"
      [] c = "S" -> "s" [] c = "J" -> "j" [] c = "A" -> "a"
      [] OTHER -> c
Lower(s) == [i \in 1..Len(s) |-> LowerChar(s[i])]

IsLetter(c) == c \in UpperLetters \cup LowerLetters
\* the characters a URI scheme is made of
IsSchemeChar(c) == IsLetter(c) \/ c \in Digits \/ c \in {"+", "-", "."}

\* the first position of s at or after from that holds a character of cs; Len(s) + 1 if none
FirstOf(s, cs, from) ==
    LET hits == {i \in from..Len(s) : s[i] \in cs}
    IN IF hits = {} THEN Len(s) + 1 ELSE Min(hits)

\* urllib.parse.urlparse(href): the scheme is what precedes the first colon
\* when that starts with a letter and holds scheme characters only, lowered;
\* the network location follows "//"; the path ends at "?" or "#".  An
\* unbalanced bracket in the network location raises ValueError.
UrlParse(url) ==
    LET colon == FirstOf(url, {":"}, 1)
        has_scheme == /\ 1 < colon /\ colon <= Len(url)
                      /\ IsLetter(url[1])
                      /\ \A i \in 1..(colon - 1) : IsSchemeChar(url[i])
        scheme == IF has_scheme THEN Lower(SubSeq(url, 1, colon - 1)) ELSE <<>>
        rest == IF has_scheme THEN SubSeq(url, colon + 1, Len(url)) ELSE url
        has_netloc == Len(rest) >= 2 /\ rest[1] = "/" /\ rest[2] = "/"
        netloc_end == IF has_netloc THEN FirstOf(rest, {"/", "?", "#"}, 3) ELSE 1
        netloc == IF has_netloc THEN SubSeq(rest, 3, netloc_end - 1) ELSE <<>>
        after == IF has_netloc THEN SubSeq(rest, netloc_end, Len(rest)) ELSE rest
        path_end == FirstOf(after, {"?", "#"}, 1)
    IN [ok |-> (Positions(netloc, "[") = {}) = (Positions(netloc, "]") = {}),
        scheme |-> scheme,
        has_netloc |-> has_netloc,
        netloc |-> netloc,
        path |-> SubSeq(after, 1, path_end - 1),
        tail |-> SubSeq(after, path_end, Len(after))]

\* urllib.parse.quote of one character: unreserved characters and "/" stay
QuoteChar(c) ==
    CASE c = " " -> "%20"
      [] c = ":" -> "%3A"
      [] c = "(" -> "%28"
      [] c = ")" -> "%29"
      [] c = "[" -> "%5B"
      [] OTHER -> c

\* quote(unquote(path)), for a path that holds no percent escape
QuotePath(path) == [i \in 1..Len(path) |-> QuoteChar(path[i])]

\* the schemes whose URLs take a network location (urllib.parse.uses_netloc)
UsesNetloc == {<<"h", "t", "t", "p">>, <<"h", "t", "t", "p", "s">>, <<"f", "i", "l", "e">>}

\* urlunparse(parsed._replace(path=path))
UrlUnparse(parsed, path) ==
    LET body == path \o parsed.tail
        with_netloc ==
            IF parsed.netloc # <<>>
               \/ (parsed.scheme \in UsesNetloc /\ ~(Len(body) >= 2 /\ body[1] = "/" /\ body[2] = "/"))
            THEN <<"/", "/">> \o parsed.netloc
                   \o (IF body # <<>> /\ body[1] # "/" THEN <<"/">> ELSE <<>>) \o body
            ELSE body
    IN IF parsed.scheme # <<>> THEN parsed.scheme \o <<":">> \o with_netloc ELSE with_netloc

\* markdownify.chomp(text): one space of prefix / suffix stands for the
\* whitespace the text began / ended with; the text is stripped
RECURSIVE LStripSpace(_)
LStripSpace(s) == IF s # <<>> /\ Head(s) = " " THEN LStripSpace(Tail(s)) ELSE s
RECURSIVE RStripSpace(_)
RStripSpace(s) == IF s # <<>> /\ Last(s) = " " THEN RStripSpace(SubSeq(s, 1, Len(s) - 1)) ELSE s
Chomp(text) ==
    [prefix |-> IF text # <<>> /\ Head(text) = " " THEN <<" ">> ELSE <<>>,
     suffix |-> IF text # <<>> /\ Last(text) = " " THEN <<" ">> ELSE <<>>,
     text |-> RStripSpace(LStripSpace(text))]

\* text.replace(r"\_", "_")
RECURSIVE UnescapeUnderscores(_)
UnescapeUnderscores(s) ==
    IF Len(s) <= 1 THEN s
    ELSE IF s[1] = "\\" /\ s[2] = "_" THEN <<"_">> \o UnescapeUnderscores(SubSeq(s, 3, Len(s)))
    ELSE <<s[1]>> \o UnescapeUnderscores(Tail(s))

\* title.replace('"', r"\"")
EscapeQuotes(s) == Flatten([i \in 1..Len(s) |-> IF s[i] = "\"" THEN <<"\\", "\"">> ELSE <<s[i]>>])

HttpScheme == <<"h", "t", "t", "p">>
HttpsScheme == <<"h", "t", "t", "p", "s">>
FileScheme == <<"f", "i", "l", "e">>

\* a filter that lets every scheme through
SchemeAllowedAlways(scheme) == TRUE

\* parsed_url.scheme.lower() in ["http", "https", "file"]
SchemeAllowed(scheme) == Lower(scheme) \in {HttpScheme, HttpsScheme, FileScheme}

\* _CustomMarkdownify.convert_a(el, text) under the options; form names the
\* return statement taken, str is the string returned
convert_a(options, el, raw_text) ==
    LET c == Chomp(raw_text)
        text == c.text
        plain == [form |-> "text", str |-> c.prefix \o text \o c.suffix]
    IN IF text = <<>> THEN [form |-> "empty", str |-> <<>>]
       ELSE IF el.in_pre THEN [form |-> "pre", str |-> text]
       ELSE LET parsed == IF Truthy(el.href) THEN UrlParse(el.href) ELSE UrlParse(<<>>)
            IN IF Truthy(el.href) /\ ~parsed.ok THEN plain
               ELSE IF Truthy(el.href) /\ parsed.scheme # <<>> /\ ~SchemeAllowed(parsed.scheme)
               THEN plain
               ELSE LET href == IF Truthy(el.href)
                                THEN UrlUnparse(parsed, QuotePath(parsed.path))
                                ELSE el.href
                        title == IF options.default_title /\ ~Truthy(el.title)
                                 THEN href ELSE el.title
                        title_part == IF Truthy(title)
                                      THEN <<" ", "\"">> \o EscapeQuotes(title) \o <<"\"">>
                                      ELSE <<>>
                    IN IF /\ options.autolinks
                          /\ UnescapeUnderscores(text) = href
                          /\ ~Truthy(el.title)
                          /\ ~options.default_title
                       THEN [form |-> "autolink", str |-> <<"<">> \o href \o <<">">>]
                       ELSE IF Truthy(href)
                       THEN [form |-> "link",
                             str |-> c.prefix \o <<"[">> \o text \o <<"]", "(">> \o href
                                       \o title_part \o <<")">> \o c.suffix]
                       ELSE [form |-> "bare", str |-> text]

(***************************************************************************)
(* Specification of the anchor rule                                        *)
(***************************************************************************)
\* javascript:x
HrefJavascript == <<"j", "a", "v", "a", "s", "c", "r", "i", "p", "t", ":", "x">>
\* http://x/a
HrefHttp == <<"h", "t", "t", "p", ":", "/", "/", "x", "/", "a">>

Hrefs ==
    {None, <<>>, HrefJavascript, HrefHttp,
     \* JavaScript:x
     <<"J", "a", "v", "a", "S", "c", "r", "i", "p", "t", ":", "x">>,
     \* mailto:a
     <<"m", "a", "i", "l", "t", "o", ":", "a">>,
     \* http://x/a b
     <<"h", "t", "t", "p", ":", "/", "/", "x", "/", "a", " ", "b">>,
     \* HTTPS://x
     <<"H", "T", "T", "P", "S", ":", "/", "/", "x">>,
     \* file:///a
     <<"f", "i", "l", "e", ":", "/", "/", "/", "a">>,
     \* /a/b and 1a:b carry no scheme
     <<"/", "a", "/", "b">>, <<"1", "a", ":", "b">>,
     \* http://[x
     <<"h", "t", "t", "p", ":", "/", "/", "[", "x">>}

Texts == {<<>>, <<" ">>, <<"o", "k">>, <<" ", "o", "k", " ">>, HrefJavascript, HrefHttp}

Anchors ==
    [href : Hrefs, title : {None, <<"t">>}, in_pre : BOOLEAN, text : Texts,
     autolinks : BOOLEAN, default_title : BOOLEAN]

InitAnchor ==
    /\ anchor \in Anchors
    /\ rendered = NotRendered /\ procs = <<>>
    /\ filename_arg = None /\ sanitized = None
    /\ stream_info = None /\ doc_name = None
    /\ ConvertIdle

ConvertA ==
    /\ rendered = NotRendered
    /\ rendered' = convert_a([autolinks |-> anchor.autolinks,
                              default_title |-> anchor.default_title],
                             [href |-> anchor.href, title |-> anchor.title,
                              in_pre |-> anchor.in_pre],
                             anchor.text)
    /\ UNCHANGED <<filename_arg, sanitized, stream_info, doc_name,
                   mammoth_ok, dirs, files, blocked, calls, last, extracted, anchor,
                   procs>>

NextAnchor == ConvertA

SpecAnchor == InitAnchor /\ [][NextAnchor]_vars

\* sub occurs in s as a contiguous run
Contains(s, sub) ==
    \E i \in 1..(Len(s) - Len(sub) + 1) : SubSeq(s, i, i + Len(sub) - 1) = sub

\* the scheme of an href as a URI parser reads it; empty when there is none
SchemeOf(href) == IF Truthy(href) THEN UrlParse(href).scheme ELSE <<>>
LinkSchemes == {<<>>, HttpScheme, HttpsScheme, FileScheme}

\* the anchor has non-empty rendered text and is not inside a pre block
C8_Applies == rendered # NotRendered /\ Chomp(anchor.text).text # <<>> /\ ~anchor.in_pre

\* the string returned has the shape of a Markdown link
IsLinkMarkdown(str) == Contains(str, <<"]", "(">>) \/ (str # <<>> /\ Head(str) = "<")

PlainTextOf(raw) == Chomp(raw).prefix \o Chomp(raw).text \o Chomp(raw).suffix

\* C8 as claimed: the anchor rule emits a Markdown link (bracket or autolink
\* form) only if the href has no scheme or its scheme, case-insensitively, is
\* http, https or file; for any other scheme the output is the plain text and
\* contains the href nowhere.
C8_OtherSchemeNeverInOutput ==
    C8_Applies =>
      /\ (rendered.form \in {"link", "autolink"} \/ IsLinkMarkdown(rendered.str))
            => SchemeOf(anchor.href) \in LinkSchemes
      /\ SchemeOf(anchor.href) \notin LinkSchemes
            => /\ rendered.str = PlainTextOf(anchor.text)
               /\ ~Contains(rendered.str, anchor.href)

\* C8 as amended: ... for any other scheme the output is exactly the plain
\* text, so the href occurs in it only where the rendered text itself spells
\* the href.
C8_OtherSchemeEmitsPlainText ==
    C8_Applies =>
      /\ (rendered.form \in {"link", "autolink"} \/ IsLinkMarkdown(rendered.str))
            => SchemeOf(anchor.href) \in LinkSchemes
      /\ SchemeOf(anchor.href) \notin LinkSchemes
            => /\ rendered.str = PlainTextOf(anchor.text)
               /\ rendered.form = "text"
               /\ Contains(rendered.str, anchor.href) => Contains(anchor.text, anchor.href)

\* C8 witness: an anchor with a mixed-case javascript: href and plain text was
\* rendered as its text alone.
C8_Witness ==
    /\ C8_Applies
    /\ SchemeOf(anchor.href) = <<"j", "a", "v", "a", "s", "c", "r", "i", "p", "t">>
    /\ anchor.href # HrefJavascript
    /\ anchor.text = <<" ", "o", "k", " ">>
    /\ rendered.str = <<" ", "o", "k", " ">>

(***************************************************************************)
(* Specification of two conversions racing on one image file               *)
(*                                                                         *)
(* Both run _extract_and_save_images for the same assets root and document *)
(* name, each on one data:image element; their makedirs, open and write    *)
(* steps interleave freely.  The images map to one file path.              *)
(***************************************************************************)
RaceProcs == {1, 2}
RaceSrcs == {DataPng(<<"AAAA">>), DataPng(<<"AAAC">>), DataPng(<<"AAAA", "AAAC">>)}
RaceDir == PathJoin(AssetsDefault, <<"r">>)

\* what the loop body derives from the source of process p
RaceData(p) == B64Decode(SplitOnceAfterComma(procs[p].src).part).bytes
RacePathOf(src) ==
    PathJoin(RaceDir,
             ImageFileName(HashName(B64Decode(SplitOnceAfterComma(src).part).bytes),
                           ExtensionOf(MimeType(src))))
RacePath(p) == RacePathOf(procs[p].src)

InitRace ==
    /\ filename_arg = None /\ sanitized = None
    /\ stream_info = None /\ doc_name = None
    /\ anchor = None /\ rendered = NotRendered
    /\ mammoth_ok = TRUE /\ blocked = {} /\ calls = 0 /\ last = NoCall /\ extracted = {}
    /\ dirs = {}
    /\ files = <<>>
    /\ \E s1 \in RaceSrcs, s2 \in RaceSrcs :
          /\ RacePathOf(s1) = RacePathOf(s2)
          /\ procs = [p \in RaceProcs |->
                        [pc |-> "makedirs", src |-> IF p = 1 THEN s1 ELSE s2,
                         off |-> 0, cut |-> 0, ref |-> <<>>]]

RaceFrame ==
    UNCHANGED <<filename_arg, sanitized, stream_info, doc_name, mammoth_ok, blocked,
                calls, last, extracted, anchor, rendered>>

\* os.makedirs(output_dir, exist_ok=True)
RaceMakeDirs(p) ==
    /\ procs[p].pc = "makedirs"
    /\ dirs' = MakeDirs([dirs |-> dirs, files |-> files], RaceDir).fs.dirs
    /\ procs' = [procs EXCEPT ![p].pc = "open"]
    /\ UNCHANGED files
    /\ RaceFrame

\* open(filepath, "wb"): creates or truncates the file; cut is the number of
\* bytes the truncation discarded
RaceOpen(p) ==
    /\ procs[p].pc = "open"
    /\ LET path == RacePath(p)
           old == IF path \in DOMAIN files THEN files[path] ELSE <<>>
       IN /\ files' = [q \in DOMAIN files \cup {path} |->
                         IF q = path THEN OpenTruncate(old) ELSE files[q]]
          /\ procs' = [procs EXCEPT ![p].pc = "write", ![p].off = 0, ![p].cut = Len(old)]
    /\ UNCHANGED dirs
    /\ RaceFrame

\* f.write(image_data), one byte reaching the file
RaceWrite(p) ==
    /\ procs[p].pc = "write"
    /\ procs[p].off < Len(RaceData(p))
    /\ files' = [files EXCEPT ![RacePath(p)] =
                    WriteAt(@, procs[p].off, RaceData(p)[procs[p].off + 1])]
    /\ procs' = [procs EXCEPT ![p].off = @ + 1]
    /\ UNCHANGED dirs
    /\ RaceFrame

\* the file is closed and img["src"] set to the path: the conversion is done
RaceClose(p) ==
    /\ procs[p].pc = "write"
    /\ procs[p].off = Len(RaceData(p))
    /\ procs' = [procs EXCEPT ![p].pc = "done", ![p].ref = RacePath(p)]
    /\ UNCHANGED <<dirs, files>>
    /\ RaceFrame

NextRace ==
    \E p \in RaceProcs : RaceMakeDirs(p) \/ RaceOpen(p) \/ RaceWrite(p) \/ RaceClose(p)

SpecRace == InitRace /\ [][NextRace]_vars

BothDone == \A p \in RaceProcs : procs[p].pc = "done"

\* C9 as claimed: when two concurrent conversions each extract an image whose
\* content hash maps to the same file path, then in every interleaving, once
\* both have finished, the file at that path holds exactly the bytes each
\* conversion extracted.
C9_FileHoldsEachConversionsBytes ==
    BothDone => \A p \in RaceProcs : files[procs[p].ref] = RaceData(p)

\* C9 as amended: when the two conversions extract identical image bytes
\* (the same path because the same content, not a hash collision), then in
\* every interleaving, once both have finished, the file holds exactly those
\* bytes.
C9_FileHoldsCommonBytes ==
    (BothDone /\ RaceData(1) = RaceData(2)) =>
       \A p \in RaceProcs : /\ procs[p].ref \in DOMAIN files
                            /\ files[procs[p].ref] = RaceData(p)

\* C9 witness: both conversions finished with identical bytes, one of them
\* having truncated the file while the other was part-way through its write.
C9_Witness ==
    /\ BothDone
    /\ RaceData(1) = RaceData(2)
    /\ \E p \in RaceProcs : procs[p].cut > 0 /\ procs[p].cut < Len(RaceData(p))
    /\ files[procs[1].ref] = RaceData(1)

====
